---- MODULE Spec2Model ----
(***************************************************************************)
(* Web3 API types of the zkSync API server                                 *)
(* (core/bin/zksync_api/src/api_server/web3/types.rs):                     *)
(*   - the string codec of BlockNumber (Serialize / Deserialize),          *)
(*   - From<Web3TxData> for TxData,                                        *)
(*   - BlockInfo::new_block / new_with_hashes / new_with_txs,              *)
(*   - tx_receipt_from_storage_receipt.                                    *)
(*                                                                         *)
(* Every function of the file is pure.  The state machine is one caller    *)
(* that is idle, calls one function on an input drawn from a bounded set,  *)
(* may feed the result to the inverse (or sibling) function, and discards  *)
(* the result.                                                             *)
(*                                                                         *)
(* Representation.  A string is a sequence of one-character strings.       *)
(* Fixed-width integers are sequences of hexadecimal digits (nibbles,      *)
(* most significant first): 16 for a 64-bit value, 8 for a 32-bit value;   *)
(* a signed 64-bit value is its two's-complement bit pattern.  Byte        *)
(* vectors and H256 / H160 are sequences of bytes.                         *)
(***************************************************************************)
EXTENDS Integers, Sequences, FiniteSets, TLC

VARIABLES
    op,        \* the function the caller called last ("idle" before a call)
    arg,       \* its argument
    ret,       \* its result
    back_arg,  \* the extra argument of the follow-up call (or NoVal)
    back,      \* the result of the follow-up call (or NoVal)
    bare_hex   \* whether the linked U64 deserializer takes a quantity
               \* without the 0x prefix (decided by the dependency)

vars == <<op, arg, ret, back_arg, back, bare_hex>>

(***************************************************************************)
(* Bounds of the input sets.                                               *)
(***************************************************************************)
MaxLen == 4        \* longest generated input string
MaxDigits == 2     \* longest generated significant-digit run of a number
MaxTxs == 2        \* longest generated transaction list of a block

(***************************************************************************)
(* Values.                                                                 *)
(***************************************************************************)
NoVal == [t |-> "none"]

Ok(v) == [t |-> "Ok", val |-> v]

Err(e) == [t |-> "Err", err |-> e]

Str(s) == [t |-> "str", s |-> s]

Rep(x, n) == [i \in 1..n |-> x]

U64Digits == 16

U32Digits == 8

U64_MAX == Rep(15, U64Digits)

U64_zero == Rep(0, U64Digits)

\* Drop the leading zero digits of a digit sequence.
RECURSIVE StripZeros(_)
StripZeros(ds) ==
    IF ds = <<>> THEN <<>>
    ELSE IF Head(ds) = 0 THEN StripZeros(Tail(ds)) ELSE ds

\* Left-pad a digit sequence with zeros to width w.
ZeroExtend(ds, w) == Rep(0, w - Len(ds)) \o ds

(***************************************************************************)
(* enum BlockNumber                                                        *)
(***************************************************************************)
Committed == [t |-> "Committed"]

Finalized == [t |-> "Finalized"]

Latest == [t |-> "Latest"]

Earliest == [t |-> "Earliest"]

Pending == [t |-> "Pending"]

Number(n) == [t |-> "Number", n |-> n]

(***************************************************************************)
(* Characters and literals.                                                *)
(***************************************************************************)
LowerHex == <<"0","1","2","3","4","5","6","7","8","9","a","b","c","d","e","f">>

UpperHex == <<"0","1","2","3","4","5","6","7","8","9","A","B","C","D","E","F">>

lit_committed == <<"c","o","m","m","i","t","t","e","d">>

lit_finalized == <<"f","i","n","a","l","i","z","e","d">>

lit_latest == <<"l","a","t","e","s","t">>

lit_earliest == <<"e","a","r","l","i","e","s","t">>

lit_pending == <<"p","e","n","d","i","n","g">>

\* The value of a hexadecimal digit character, -1 for any other character.
HexDigitValue(c) ==
    IF \E i \in 1..16 : LowerHex[i] = c
    THEN (CHOOSE i \in 1..16 : LowerHex[i] = c) - 1
    ELSE IF \E i \in 1..16 : UpperHex[i] = c
    THEN (CHOOSE i \in 1..16 : UpperHex[i] = c) - 1
    ELSE -1

(***************************************************************************)
(* format!("{:x}", x) of a U64: the lowercase hexadecimal digits of x      *)
(* without leading zeros, "0" for zero, no prefix (no # flag).             *)
(***************************************************************************)
FmtLowerHex(x) ==
    LET sig == StripZeros(x)
        ds  == IF sig = <<>> THEN <<0>> ELSE sig
    IN  [i \in 1..Len(ds) |-> LowerHex[ds[i] + 1]]

\* serialize with the zero case of the digit printer lost: Number(0) gives "0x".
serialize_no_zero_digit(bn) ==
    IF bn.t = "Number"
    THEN LET sig == StripZeros(bn.n)
         IN  Str(<<"0", "x">> \o [i \in 1..Len(sig) |-> LowerHex[sig[i] + 1]])
    ELSE Str(CASE bn.t = "Committed" -> lit_committed
               [] bn.t = "Finalized" -> lit_finalized
               [] bn.t = "Latest"    -> lit_latest
               [] bn.t = "Earliest"  -> lit_earliest
               [] bn.t = "Pending"   -> lit_pending)

\* serialize with {:X} in place of {:x}.
serialize_upper_hex(bn) ==
    IF bn.t = "Number"
    THEN LET low == FmtLowerHex(bn.n)
         IN  Str(<<"0", "x">> \o
                 [i \in 1..Len(low) |-> UpperHex[HexDigitValue(low[i]) + 1]])
    ELSE Str(CASE bn.t = "Committed" -> lit_committed
               [] bn.t = "Finalized" -> lit_finalized
               [] bn.t = "Latest"    -> lit_latest
               [] bn.t = "Earliest"  -> lit_earliest
               [] bn.t = "Pending"   -> lit_pending)

(***************************************************************************)
(* impl Serialize for BlockNumber: always serializer.serialize_str(..)     *)
(***************************************************************************)
serialize(bn) ==
    CASE bn.t = "Number"    -> Str(<<"0", "x">> \o FmtLowerHex(bn.n))
      [] bn.t = "Committed" -> Str(lit_committed)
      [] bn.t = "Finalized" -> Str(lit_finalized)
      [] bn.t = "Latest"    -> Str(lit_latest)
      [] bn.t = "Earliest"  -> Str(lit_earliest)
      [] bn.t = "Pending"   -> Str(lit_pending)

(***************************************************************************)
(* U64::deserialize on a borrowed string (the web3 crate's U64, called at  *)
(* line 67): a hexadecimal quantity of 1 to 16 significant digits, with    *)
(* the 0x prefix; without it only when the linked version allows (bare).   *)
(* Anything else is an error carrying the token.                           *)
(***************************************************************************)
HasPrefix(s) == Len(s) >= 2 /\ s[1] = "0" /\ s[2] = "x"

QuantityDigits(s) == IF HasPrefix(s) THEN SubSeq(s, 3, Len(s)) ELSE s

U64_deserialize(s, bare) ==
    LET body == QuantityDigits(s)
        ds   == [i \in 1..Len(body) |-> HexDigitValue(body[i])]
        sig  == StripZeros(ds)
    IN  IF ~HasPrefix(s) /\ ~bare THEN Err(s)
        ELSE IF body = <<>> THEN Err(s)
        ELSE IF \E i \in 1..Len(ds) : ds[i] = -1 THEN Err(s)
        ELSE IF Len(sig) > U64Digits THEN Err(s)
        ELSE Ok(ZeroExtend(sig, U64Digits))

\* visit_str with "pending" folded into Latest (Pending is documented as its alias).
visit_str_pending_is_latest(value, bare) ==
    CASE value = lit_committed -> Ok(Committed)
      [] value = lit_finalized -> Ok(Finalized)
      [] value = lit_latest    -> Ok(Latest)
      [] value = lit_earliest  -> Ok(Earliest)
      [] value = lit_pending   -> Ok(Latest)
      [] OTHER ->
            LET number == U64_deserialize(value, bare)
            IN  IF number.t = "Err" THEN number
                ELSE Ok(Number(number.val))

\* visit_str with the number arm falling back to Latest instead of failing.
visit_str_default_latest(value, bare) ==
    CASE value = lit_committed -> Ok(Committed)
      [] value = lit_finalized -> Ok(Finalized)
      [] value = lit_latest    -> Ok(Latest)
      [] value = lit_earliest  -> Ok(Earliest)
      [] value = lit_pending   -> Ok(Pending)
      [] OTHER ->
            LET number == U64_deserialize(value, bare)
            IN  IF number.t = "Err" THEN Ok(Latest)
                ELSE Ok(Number(number.val))

(***************************************************************************)
(* V::visit_str                                                            *)
(***************************************************************************)
visit_str(value, bare) ==
    CASE value = lit_committed -> Ok(Committed)
      [] value = lit_finalized -> Ok(Finalized)
      [] value = lit_latest    -> Ok(Latest)
      [] value = lit_earliest  -> Ok(Earliest)
      [] value = lit_pending   -> Ok(Pending)
      [] OTHER ->
            LET number == U64_deserialize(value, bare)
            IN  IF number.t = "Err" THEN number      \* the ? operator
                ELSE Ok(Number(number.val))

(***************************************************************************)
(* impl Deserialize for BlockNumber: deserializer.deserialize_str(V).  V   *)
(* implements visit_str only, so a token that is not a string is rejected  *)
(* by the Visitor's default methods (invalid type).                        *)
(***************************************************************************)
deserialize(tok, bare) ==
    IF tok.t = "str" THEN visit_str(tok.s, bare) ELSE Err(tok)

(***************************************************************************)
(* Option, panics, fixed-size hashes.                                      *)
(***************************************************************************)
None == [t |-> "None"]

Some(x) == [t |-> "Some", v |-> x]

Panic == [t |-> "panic"]

H256Bytes == 32

H160Bytes == 20

H64Bytes == 8

H2048Bytes == 256

U256Digits == 64

H256_zero == Rep(0, H256Bytes)

H160_zero == Rep(0, H160Bytes)

H64_zero == Rep(0, H64Bytes)

H2048_zero == Rep(0, H2048Bytes)

U256_zero == Rep(0, U256Digits)

\* H256::from_slice / H160::from_slice: asserts the length, copies the bytes.
from_slice(src, len) == IF Len(src) = len THEN src ELSE Panic

\* Option::map with a function that may panic.
map_from_slice(o, len) ==
    IF o.t = "None" THEN None
    ELSE IF Len(o.v) = len THEN Some(from_slice(o.v, len)) ELSE Panic

\* `n as u32` with a range check that clamps to u32::MAX.
as_u32_saturating(n) ==
    IF SubSeq(n, 1, U64Digits - U32Digits) = Rep(0, U64Digits - U32Digits)
    THEN SubSeq(n, U64Digits - U32Digits + 1, U64Digits)
    ELSE Rep(15, U32Digits)

\* `n as u32` on a 64-bit integer: the low 32 bits, no check.
as_u32(n) == SubSeq(n, U64Digits - U32Digits + 1, U64Digits)

(***************************************************************************)
(* impl From<Web3TxData> for TxData                                        *)
(***************************************************************************)
TxData_from(tx) ==
    LET block_hash == map_from_slice(tx.block_hash, H256Bytes)
        from       == from_slice(tx.from_account, H160Bytes)
        to         == map_from_slice(tx.to_account, H160Bytes)
        tx_hash    == from_slice(tx.tx_hash, H256Bytes)
    IN  IF Panic \in {block_hash, from, to, tx_hash} THEN Panic
        ELSE [t            |-> "TxData",
              block_hash   |-> block_hash,
              block_number |-> IF tx.block_number.t = "None" THEN None
                               ELSE Some(as_u32(tx.block_number.v)),
              block_index  |-> IF tx.block_index.t = "None" THEN None
                               ELSE Some(as_u32(tx.block_index.v)),
              from         |-> from,
              to           |-> to,
              nonce        |-> as_u32(tx.nonce),
              tx_hash      |-> tx_hash]

(***************************************************************************)
(* impl BlockInfo                                                          *)
(***************************************************************************)
\* 50000 as a U256.
GasLimit == ZeroExtend(<<12, 3, 5, 0>>, U256Digits)

\* new_block with the three roots taken from the parent hash.
new_block_parent_roots(hash, parent_hash, block_number, timestamp, transactions) ==
    [hash              |-> Some(hash),
     parent_hash       |-> parent_hash,
     uncles_hash       |-> H256_zero,
     author            |-> H160_zero,
     state_root        |-> parent_hash,
     transactions_root |-> parent_hash,
     receipts_root     |-> parent_hash,
     number            |-> Some(ZeroExtend(block_number, U64Digits)),
     gas_used          |-> U256_zero,
     gas_limit         |-> GasLimit,
     extra_data        |-> <<>>,
     logs_bloom        |-> None,
     timestamp         |-> ZeroExtend(timestamp, U256Digits),
     difficulty        |-> U256_zero,
     total_difficulty  |-> Some(U256_zero),
     seal_fields       |-> <<>>,
     uncles            |-> <<>>,
     transactions      |-> transactions,
     size              |-> None,
     mix_hash          |-> Some(H256_zero),
     nonce             |-> Some(H64_zero)]

new_block(hash, parent_hash, block_number, timestamp, transactions) ==
    [hash              |-> Some(hash),
     parent_hash       |-> parent_hash,
     uncles_hash       |-> H256_zero,
     author            |-> H160_zero,
     state_root        |-> hash,
     transactions_root |-> hash,
     receipts_root     |-> hash,
     number            |-> Some(ZeroExtend(block_number, U64Digits)),
     gas_used          |-> U256_zero,
     gas_limit         |-> GasLimit,
     extra_data        |-> <<>>,
     logs_bloom        |-> None,
     timestamp         |-> ZeroExtend(timestamp, U256Digits),
     difficulty        |-> U256_zero,
     total_difficulty  |-> Some(U256_zero),
     seal_fields       |-> <<>>,
     uncles            |-> <<>>,
     transactions      |-> transactions,
     size              |-> None,
     mix_hash          |-> Some(H256_zero),
     nonce             |-> Some(H64_zero)]

new_with_hashes(hash, parent_hash, block_number, timestamp, transactions) ==
    [t     |-> "BlockWithHashes",
     block |-> new_block(hash, parent_hash, block_number, timestamp, transactions)]

\* new_with_txs with hash and parent_hash passed in the wrong order.
new_with_txs_swapped(hash, parent_hash, block_number, timestamp, transactions) ==
    [t     |-> "BlockWithTxs",
     block |-> new_block(parent_hash, hash, block_number, timestamp, transactions)]

new_with_txs(hash, parent_hash, block_number, timestamp, transactions) ==
    [t     |-> "BlockWithTxs",
     block |-> new_block(hash, parent_hash, block_number, timestamp, transactions)]

(***************************************************************************)
(* tx_receipt_from_storage_receipt                                         *)
(***************************************************************************)
\* The receipt with the sentinel index tied to failure, as the source comment reads.
tx_receipt_sentinel_on_failure(tx) ==
    LET root_hash == from_slice(tx.block_hash, H256Bytes)
        tx_hash   == from_slice(tx.tx_hash, H256Bytes)
    IN  IF Panic \in {root_hash, tx_hash} THEN Panic
        ELSE [t                   |-> "TransactionReceipt",
              transaction_hash    |-> tx_hash,
              transaction_index   |-> IF tx.success /\ tx.block_index.t = "Some"
                                      THEN ZeroExtend(tx.block_index.v, U64Digits)
                                      ELSE U64_MAX,
              block_hash          |-> Some(root_hash),
              block_number        |-> Some(ZeroExtend(tx.block_number, U64Digits)),
              cumulative_gas_used |-> U256_zero,
              gas_used            |-> Some(U256_zero),
              contract_address    |-> None,
              logs                |-> <<>>,
              status              |-> Some(ZeroExtend(<<IF tx.success THEN 1 ELSE 0>>,
                                                      U64Digits)),
              root                |-> Some(root_hash),
              logs_bloom          |-> H2048_zero]

\* The receipt with root taken from the transaction hash.
tx_receipt_root_from_tx_hash(tx) ==
    LET root_hash == from_slice(tx.block_hash, H256Bytes)
        tx_hash   == from_slice(tx.tx_hash, H256Bytes)
    IN  IF Panic \in {root_hash, tx_hash} THEN Panic
        ELSE [t                   |-> "TransactionReceipt",
              transaction_hash    |-> tx_hash,
              transaction_index   |-> IF tx.block_index.t = "Some"
                                      THEN ZeroExtend(tx.block_index.v, U64Digits)
                                      ELSE U64_MAX,
              block_hash          |-> Some(root_hash),
              block_number        |-> Some(ZeroExtend(tx.block_number, U64Digits)),
              cumulative_gas_used |-> U256_zero,
              gas_used            |-> Some(U256_zero),
              contract_address    |-> None,
              logs                |-> <<>>,
              status              |-> Some(ZeroExtend(<<IF tx.success THEN 1 ELSE 0>>,
                                                      U64Digits)),
              root                |-> Some(tx_hash),
              logs_bloom          |-> H2048_zero]

tx_receipt_from_storage_receipt(tx) ==
    LET root_hash == from_slice(tx.block_hash, H256Bytes)
        tx_hash   == from_slice(tx.tx_hash, H256Bytes)
    IN  IF Panic \in {root_hash, tx_hash} THEN Panic
        ELSE [t                   |-> "TransactionReceipt",
              transaction_hash    |-> tx_hash,
              transaction_index   |-> IF tx.block_index.t = "Some"
                                      THEN ZeroExtend(tx.block_index.v, U64Digits)
                                      ELSE U64_MAX,
              block_hash          |-> Some(root_hash),
              block_number        |-> Some(ZeroExtend(tx.block_number, U64Digits)),
              cumulative_gas_used |-> U256_zero,
              gas_used            |-> Some(U256_zero),
              contract_address    |-> None,
              logs                |-> <<>>,
              status              |-> Some(ZeroExtend(<<IF tx.success THEN 1 ELSE 0>>,
                                                      U64Digits)),
              root                |-> Some(root_hash),
              logs_bloom          |-> H2048_zero]

(***************************************************************************)
(* Input sets.                                                             *)
(***************************************************************************)
Alphabet == {"0", "x", "2", "a", "F", "z"}

SampleDigits == {0, 1, 2, 10, 15}

ShortStrings == UNION {[1..k -> Alphabet] : k \in 0..MaxLen}

LongStrings ==
    { <<"0","x">> \o Rep("f", 16),                 \* 2^64 - 1
      <<"0","x">> \o Rep("F", 16),
      <<"0","x","1">> \o Rep("0", 16),             \* 2^64
      <<"0","x">> \o Rep("f", 17),
      Rep("f", 16),
      <<"1">> \o Rep("0", 16),
      <<"0","x">> \o Rep("0", 16) \o <<"1">>,      \* 17 digits, value 1
      <<"0","x","8">> \o Rep("0", 15),             \* 2^63
      <<"0","x","2","a","z">>,
      <<"0","X","2","a">>,
      <<"4","2">>,
      <<"L","a","t","e","s","t">>,
      <<"L","A","T","E","S","T">>,
      <<"P","e","n","d","i","n","g">>,
      <<"l","a","t","e","s","t"," ">>,
      <<"l","a","t","e","s">>,
      <<"s","a","f","e">> }

AliasLiterals ==
    {lit_committed, lit_finalized, lit_latest, lit_earliest, lit_pending}

InputStrings == AliasLiterals \cup ShortStrings \cup LongStrings

\* What a deserializer can be handed: a string, or a token of another type.
InputTokens ==
    {Str(s) : s \in InputStrings}
        \cup {[t |-> "u64", n |-> ZeroExtend(<<2, 10>>, U64Digits)],
              [t |-> "null"]}

U64Samples ==
    {ZeroExtend(ds, U64Digits) :
        ds \in UNION {[1..k -> SampleDigits] : k \in 0..MaxDigits}}
        \cup { U64_MAX,
               <<8>> \o Rep(0, 15),                          \* 2^63
               Rep(0, 7) \o <<1>> \o Rep(0, 8),              \* 2^32
               Rep(0, 8) \o Rep(15, 8),                      \* 2^32 - 1
               <<0,1,2,3,4,5,6,7,8,9,10,11,12,13,14,15>>,
               <<15,14,13,12,11,10,9,8,7,6,5,4,3,2,1,0>> }

BlockNumbers ==
    {Committed, Finalized, Latest, Earliest, Pending}
        \cup {Number(n) : n \in U64Samples}

\* Byte vectors as the storage layer hands them over; the last of each set
\* has the wrong length.
Bytes32Samples == {Rep(0, 32), Rep(171, 32), [i \in 1..32 |-> i]}

Bytes20Samples == {Rep(0, 20), [i \in 1..20 |-> 255 - i]}

ShortBytes == Rep(1, 31)

\* 64-bit integers of the storage records (two's-complement bit patterns).
I64Samples ==
    { U64_zero,
      ZeroExtend(<<2, 10>>, U64Digits),                    \* 42
      Rep(0, 8) \o Rep(15, 8),                             \* 2^32 - 1
      Rep(0, 7) \o <<1>> \o Rep(0, 8),                     \* 2^32
      Rep(0, 7) \o <<1>> \o Rep(0, 6) \o <<2, 10>>,        \* 2^32 + 42
      <<0,1,2,3,4,5,6,7,8,9,10,11,12,13,14,15>>,
      Rep(15, 16) }                                        \* -1

Web3TxDataSamples ==
    [block_hash   : {None, Some(Rep(171, 32)), Some(ShortBytes)},
     block_number : {None} \cup {Some(n) : n \in I64Samples},
     block_index  : {None} \cup {Some(n) : n \in I64Samples},
     from_account : Bytes20Samples,
     to_account   : {None, Some(Rep(7, 20))},
     nonce        : I64Samples,
     tx_hash      : {[i \in 1..32 |-> i]}]

\* zksync_types::BlockNumber(u32) and u64 timestamps.
U32Samples == {Rep(0, 8), ZeroExtend(<<2, 10>>, 8), Rep(15, 8)}

TimestampSamples == {U64_zero, ZeroExtend(<<6, 0, 0, 0, 0, 0, 0, 0>>, 16), U64_MAX}

H256Samples == {H256_zero, Rep(171, 32), [i \in 1..32 |-> i]}

Transaction(h) == [t |-> "Transaction", hash |-> h]

TxHashLists == UNION {[1..k -> {Rep(171, 32), Rep(205, 32)}] : k \in 0..MaxTxs}

TxBodyLists ==
    UNION {[1..k -> {Transaction(Rep(171, 32)), Transaction(Rep(205, 32))}] :
              k \in 0..MaxTxs}

BlockMeta ==
    [hash         : H256Samples,
     parent_hash  : H256Samples,
     block_number : U32Samples,
     timestamp    : TimestampSamples]

Web3TxReceiptSamples ==
    [tx_hash      : {[i \in 1..32 |-> i], ShortBytes},
     block_number : {Rep(0, 16), ZeroExtend(<<2, 10>>, 16), <<7>> \o Rep(15, 15)},
     block_hash   : Bytes32Samples \cup {ShortBytes},
     block_index  : {None, Some(Rep(0, 8)), Some(ZeroExtend(<<2, 10>>, 8)),
                     Some(<<7>> \o Rep(15, 7))},
     success      : BOOLEAN]

(***************************************************************************)
(* The caller.                                                             *)
(***************************************************************************)
Init ==
    /\ op = "idle"
    /\ arg = NoVal
    /\ ret = NoVal
    /\ back_arg = NoVal
    /\ back = NoVal
    /\ bare_hex \in BOOLEAN

\* BlockNumber::deserialize on an incoming token.
Deserialize ==
    /\ op = "idle"
    /\ \E tok \in InputTokens :
          /\ op' = "deserialize"
          /\ arg' = tok
          /\ ret' = deserialize(tok, bare_hex)
          /\ back_arg' = NoVal
          /\ back' = NoVal
    /\ UNCHANGED bare_hex

\* The decoded value is serialized again.
Reserialize ==
    /\ op = "deserialize"
    /\ ret.t = "Ok"
    /\ back = NoVal
    /\ back' = serialize(ret.val)
    /\ UNCHANGED <<op, arg, ret, back_arg, bare_hex>>

\* BlockNumber::serialize on a value.
Serialize ==
    /\ op = "idle"
    /\ \E bn \in BlockNumbers :
          /\ op' = "serialize"
          /\ arg' = bn
          /\ ret' = serialize(bn)
          /\ back_arg' = NoVal
          /\ back' = NoVal
    /\ UNCHANGED bare_hex

\* The serialized token is deserialized again.
Redeserialize ==
    /\ op = "serialize"
    /\ back = NoVal
    /\ back' = deserialize(ret, bare_hex)
    /\ UNCHANGED <<op, arg, ret, back_arg, bare_hex>>

\* TxData::from on a storage record.
TxDataFrom ==
    /\ op = "idle"
    /\ \E tx \in Web3TxDataSamples :
          /\ op' = "tx_data_from"
          /\ arg' = tx
          /\ ret' = TxData_from(tx)
          /\ back_arg' = NoVal
          /\ back' = NoVal
    /\ UNCHANGED bare_hex

\* BlockInfo::new_with_hashes.
NewWithHashes ==
    /\ op = "idle"
    /\ \E m \in BlockMeta, txs \in TxHashLists :
          /\ op' = "new_with_hashes"
          /\ arg' = [meta |-> m, transactions |-> txs]
          /\ ret' = new_with_hashes(m.hash, m.parent_hash, m.block_number,
                                    m.timestamp, txs)
          /\ back_arg' = NoVal
          /\ back' = NoVal
    /\ UNCHANGED bare_hex

\* BlockInfo::new_with_txs.
NewWithTxs ==
    /\ op = "idle"
    /\ \E m \in BlockMeta, txs \in TxBodyLists :
          /\ op' = "new_with_txs"
          /\ arg' = [meta |-> m, transactions |-> txs]
          /\ ret' = new_with_txs(m.hash, m.parent_hash, m.block_number,
                                 m.timestamp, txs)
          /\ back_arg' = NoVal
          /\ back' = NoVal
    /\ UNCHANGED bare_hex

\* After new_with_hashes: new_with_txs on the same block metadata.
NewWithTxsSameMeta ==
    /\ op = "new_with_hashes"
    /\ back = NoVal
    /\ \E txs \in TxBodyLists :
          /\ back_arg' = [transactions |-> txs]
          /\ back' = new_with_txs(arg.meta.hash, arg.meta.parent_hash,
                                  arg.meta.block_number, arg.meta.timestamp, txs)
    /\ UNCHANGED <<op, arg, ret, bare_hex>>

\* After new_with_txs: new_with_hashes on the same block metadata.
NewWithHashesSameMeta ==
    /\ op = "new_with_txs"
    /\ back = NoVal
    /\ \E txs \in TxHashLists :
          /\ back_arg' = [transactions |-> txs]
          /\ back' = new_with_hashes(arg.meta.hash, arg.meta.parent_hash,
                                     arg.meta.block_number, arg.meta.timestamp, txs)
    /\ UNCHANGED <<op, arg, ret, bare_hex>>

\* tx_receipt_from_storage_receipt on a storage record.
TxReceiptFrom ==
    /\ op = "idle"
    /\ \E tx \in Web3TxReceiptSamples :
          /\ op' = "tx_receipt"
          /\ arg' = tx
          /\ ret' = tx_receipt_from_storage_receipt(tx)
          /\ back_arg' = NoVal
          /\ back' = NoVal
    /\ UNCHANGED bare_hex

\* The caller drops the result.
Discard ==
    /\ op # "idle"
    /\ op' = "idle"
    /\ arg' = NoVal
    /\ ret' = NoVal
    /\ back_arg' = NoVal
    /\ back' = NoVal
    /\ UNCHANGED bare_hex

Next ==
    \/ Deserialize
    \/ Reserialize
    \/ Serialize
    \/ Redeserialize
    \/ TxDataFrom
    \/ NewWithHashes
    \/ NewWithTxs
    \/ NewWithTxsSameMeta
    \/ NewWithHashesSameMeta
    \/ TxReceiptFrom
    \/ Discard

Spec == Init /\ [][Next]_vars

(***************************************************************************)
(* Properties of the BlockNumber codec.                                    *)
(***************************************************************************)
\* The variant each alias literal names (the documented table of the API).
AliasVariant(s) ==
    CASE s = <<"c","o","m","m","i","t","t","e","d">> -> "Committed"
      [] s = <<"f","i","n","a","l","i","z","e","d">> -> "Finalized"
      [] s = <<"l","a","t","e","s","t">>             -> "Latest"
      [] s = <<"e","a","r","l","i","e","s","t">>     -> "Earliest"
      [] s = <<"p","e","n","d","i","n","g">>         -> "Pending"

IsAliasToken(tok) == tok.t = "str" /\ tok.s \in AliasLiterals

\* C1: decoding each of the five alias literals succeeds with the literal's
\* own variant ("pending" gives Pending, not Latest), and encoding the
\* decoded variant gives the literal back.
C1_AliasRoundTrip ==
    (op = "deserialize" /\ IsAliasToken(arg)) =>
        /\ ret.t = "Ok"
        /\ ret.val.t = AliasVariant(arg.s)
        /\ DOMAIN ret.val = {"t"}
        /\ (back # NoVal => (back.t = "str" /\ back.s = arg.s))

C1_Witness ==
    /\ op = "deserialize"
    /\ arg.t = "str"
    /\ arg.s = lit_pending
    /\ ret.t = "Ok"
    /\ ret.val.t = "Pending"
    /\ back.t = "str"
    /\ back.s = lit_pending

\* C2: decoding the encoding of Number(n) succeeds with exactly Number(n);
\* the encoding of a Number is never an alias literal.
C2_NumberRoundTrip ==
    (op = "serialize" /\ arg.t = "Number") =>
        /\ ret.t = "str"
        /\ ret.s \notin AliasLiterals
        /\ (back # NoVal =>
                /\ back.t = "Ok"
                /\ back.val.t = "Number"
                /\ back.val.n = arg.n)

C2_Witness ==
    /\ op = "serialize"
    /\ arg.t = "Number"
    /\ arg.n = U64_MAX
    /\ back.t = "Ok"
    /\ back.val.t = "Number"
    /\ back.val.n = U64_MAX

\* A hexadecimal unsigned 64-bit quantity: an optional 0x, then at least one
\* hexadecimal digit, of a value at most 2^64 - 1.
IsHexChar(c) ==
    c \in {"0","1","2","3","4","5","6","7","8","9",
           "a","b","c","d","e","f","A","B","C","D","E","F"}

RECURSIVE SkipZeroChars(_)
SkipZeroChars(s) ==
    IF s # <<>> /\ Head(s) = "0" THEN SkipZeroChars(Tail(s)) ELSE s

IsHexQuantity(s) ==
    LET body == IF Len(s) >= 2 /\ SubSeq(s, 1, 2) = <<"0","x">>
                THEN SubSeq(s, 3, Len(s)) ELSE s
    IN  /\ Len(body) >= 1
        /\ \A i \in 1..Len(body) : IsHexChar(body[i])
        /\ Len(SkipZeroChars(body)) <= 16

\* C3: decoding anything that is neither one of the five exact alias
\* literals nor a hexadecimal unsigned 64-bit quantity is an error, never a
\* BlockNumber (so never a default such as Latest).
C3_DecodeFailure ==
    (op = "deserialize" /\ ~IsAliasToken(arg)
        /\ ~(arg.t = "str" /\ IsHexQuantity(arg.s))) => ret.t = "Err"

C3_Witness ==
    /\ op = "deserialize"
    /\ arg.t = "str"
    /\ arg.s = <<"L","a","t","e","s","t">>
    /\ ret.t = "Err"

\* C5: Number(n) encodes as one string: "0x", then the lowercase
\* hexadecimal digits of n without leading zeros ("0x0" for zero);
\* Number(42) encodes as "0x2a".
C5_NumberEncoding ==
    (op = "serialize" /\ arg.t = "Number") =>
        /\ ret.t = "str"
        /\ Len(ret.s) >= 3
        /\ ret.s[1] = "0"
        /\ ret.s[2] = "x"
        /\ \A i \in 3..Len(ret.s) :
              ret.s[i] \in {"0","1","2","3","4","5","6","7","8","9",
                            "a","b","c","d","e","f"}
        /\ (Len(ret.s) > 3 => ret.s[3] # "0")
        /\ Len(ret.s) <= 2 + U64Digits
        /\ ZeroExtend([i \in 1..(Len(ret.s) - 2) |-> HexDigitValue(ret.s[i + 2])],
                      U64Digits) = arg.n
        /\ (arg.n = U64_zero => ret.s = <<"0","x","0">>)
        /\ (arg.n = ZeroExtend(<<2, 10>>, U64Digits) => ret.s = <<"0","x","2","a">>)

C5_Witness ==
    /\ op = "serialize"
    /\ arg.t = "Number"
    /\ arg.n = ZeroExtend(<<2, 10>>, U64Digits)
    /\ ret.t = "str"
    /\ ret.s = <<"0","x","2","a">>

(***************************************************************************)
(* Properties of the BlockInfo builder.                                    *)
(***************************************************************************)
IsBlockCall == op \in {"new_with_hashes", "new_with_txs"}

\* C6: new_with_hashes and new_with_txs on the same hash, parent hash, block
\* index and timestamp give blocks equal in every field but transactions,
\* whatever the two transaction lists; only the variant and the transactions
\* field differ, and transactions is the supplied list unchanged.
C6_SameMetaSameFields ==
    (IsBlockCall /\ back # NoVal) =>
        /\ ret.t = (IF op = "new_with_hashes" THEN "BlockWithHashes" ELSE "BlockWithTxs")
        /\ back.t = (IF op = "new_with_hashes" THEN "BlockWithTxs" ELSE "BlockWithHashes")
        /\ DOMAIN ret.block = DOMAIN back.block
        /\ \A f \in DOMAIN ret.block \ {"transactions"} : ret.block[f] = back.block[f]
        /\ ret.block.transactions = arg.transactions
        /\ back.block.transactions = back_arg.transactions

C6_Witness ==
    /\ op = "new_with_hashes"
    /\ back.t = "BlockWithTxs"
    /\ arg.meta.hash # arg.meta.parent_hash
    /\ Len(arg.transactions) = 1
    /\ Len(back_arg.transactions) = 2
    /\ back.block.parent_hash = arg.meta.parent_hash

\* The fields of a built block that the inputs hash and block index fix, and
\* the placeholders.
BlockFieldsOk(b, m) ==
    /\ b.hash = [t |-> "Some", v |-> m.hash]
    /\ b.state_root = m.hash
    /\ b.transactions_root = m.hash
    /\ b.receipts_root = m.hash
    /\ b.number.t = "Some"
    /\ Len(b.number.v) = 16
    /\ StripZeros(b.number.v) = StripZeros(m.block_number)
    /\ b.uncles_hash = Rep(0, 32)
    /\ b.author = Rep(0, 20)
    /\ b.gas_used = Rep(0, 64)
    /\ Len(b.gas_limit) = 64
    /\ StripZeros(b.gas_limit) = <<12, 3, 5, 0>>      \* 0xc350 = 50000
    /\ b.extra_data = <<>>
    /\ b.logs_bloom = [t |-> "None"]
    /\ b.difficulty = Rep(0, 64)
    /\ b.total_difficulty = [t |-> "Some", v |-> Rep(0, 64)]
    /\ b.seal_fields = <<>>
    /\ b.uncles = <<>>
    /\ b.mix_hash = [t |-> "Some", v |-> Rep(0, 32)]
    /\ b.nonce = [t |-> "Some", v |-> Rep(0, 8)]
    /\ b.size = [t |-> "None"]

\* C7: every block built by new_with_hashes or new_with_txs has hash present
\* and the three roots equal to the input hash, number present and equal to
\* the input block index, and the fixed placeholders (gas_limit 50000, the
\* zero hashes, the empty and absent fields), whatever the inputs.
C7_BlockPlaceholders ==
    IsBlockCall =>
        /\ BlockFieldsOk(ret.block, arg.meta)
        /\ (back # NoVal => BlockFieldsOk(back.block, arg.meta))

C7_Witness ==
    /\ op = "new_with_txs"
    /\ arg.meta.hash = [i \in 1..32 |-> i]
    /\ arg.meta.parent_hash = Rep(171, 32)
    /\ arg.meta.block_number = Rep(15, 8)
    /\ Len(arg.transactions) = 2
    /\ ret.block.state_root = [i \in 1..32 |-> i]
    /\ ret.block.number = [t |-> "Some", v |-> Rep(0, 8) \o Rep(15, 8)]

(***************************************************************************)
(* Properties of the receipt adapter.  A storage receipt carries 32-byte   *)
(* hashes; on any other length from_slice panics and nothing is returned.  *)
(***************************************************************************)
IsStorageReceipt(tx) == Len(tx.block_hash) = 32 /\ Len(tx.tx_hash) = 32

C9_ReceiptFields ==
    (op = "tx_receipt" /\ IsStorageReceipt(arg)) =>
        /\ ret.t = "TransactionReceipt"
        /\ ret.block_hash = [t |-> "Some", v |-> arg.block_hash]
        /\ ret.root = [t |-> "Some", v |-> arg.block_hash]
        /\ ret.block_number.t = "Some"
        /\ Len(ret.block_number.v) = 16
        /\ StripZeros(ret.block_number.v) = StripZeros(arg.block_number)
        /\ ret.transaction_hash = arg.tx_hash
        /\ ret.cumulative_gas_used = Rep(0, 64)
        /\ ret.gas_used = [t |-> "Some", v |-> Rep(0, 64)]
        /\ ret.contract_address = [t |-> "None"]
        /\ ret.logs = <<>>
        /\ ret.logs_bloom = Rep(0, 256)

C9_Witness ==
    /\ op = "tx_receipt"
    /\ ~arg.success
    /\ arg.block_hash = Rep(171, 32)
    /\ ret.t = "TransactionReceipt"
    /\ ret.root = [t |-> "Some", v |-> Rep(171, 32)]
    /\ ret.transaction_hash = [i \in 1..32 |-> i]

(***************************************************************************)
(* Properties of the TxData adapter.                                       *)
(***************************************************************************)
IsTxLocationRecord(tx) ==
    /\ (tx.block_hash.t = "Some" => Len(tx.block_hash.v) = 32)
    /\ Len(tx.from_account) = 20
    /\ (tx.to_account.t = "Some" => Len(tx.to_account.v) = 20)
    /\ Len(tx.tx_hash) = 32

\* out is the 64-bit value in narrowed to 32 bits: in itself when in is in
\* 0 .. 2^32 - 1, and in any case in = q * 2^32 + out for the 32-bit q of
\* in's high digits (in modulo 2^32).
NarrowedTo32(in, out) ==
    /\ Len(out) = 8
    /\ (SubSeq(in, 1, 8) = Rep(0, 8) => Rep(0, 8) \o out = in)
    /\ SubSeq(in, 1, 8) \o out = in

NarrowedOption(in, out) ==
    /\ out.t = in.t
    /\ (in.t = "Some" => NarrowedTo32(in.v, out.v))

\* C10: the TxData adapter does not fail on a numeric field out of the
\* 32-bit range: block_number, block_index and nonce come out modulo 2^32,
\* unchanged when they are in 0 .. 2^32 - 1, and an optional one is present
\* in the output exactly when it is present in the input.
C10_SilentTruncation ==
    (op = "tx_data_from" /\ IsTxLocationRecord(arg)) =>
        /\ ret.t = "TxData"
        /\ NarrowedOption(arg.block_number, ret.block_number)
        /\ NarrowedOption(arg.block_index, ret.block_index)
        /\ NarrowedTo32(arg.nonce, ret.nonce)

C10_Witness ==
    /\ op = "tx_data_from"
    /\ ret.t = "TxData"
    /\ arg.nonce = Rep(0, 7) \o <<1>> \o Rep(0, 6) \o <<2, 10>>
    /\ ret.nonce = Rep(0, 6) \o <<2, 10>>
    /\ arg.block_number = [t |-> "Some", v |-> Rep(15, 16)]
    /\ ret.block_number = [t |-> "Some", v |-> Rep(15, 8)]
    /\ arg.block_index = [t |-> "None"]
    /\ ret.block_index = [t |-> "None"]

====
